---- MODULE Spec2Model ----
(***************************************************************************)
(* Space debris dashboard: the Live Tracker pipeline of js/main.js and     *)
(* js/globe.js.  The module models the visible-set selector                *)
(* (getVisibleSubset), the simulated clock (updateSimTime), and the view   *)
(* lifecycle (initGlobe, init2DMap, toggleProjection, switchViz,           *)
(* handleResize) together with the two loops they start.                   *)
(***************************************************************************)
EXTENDS Integers, Sequences, FiniteSets, TLC

(***************************************************************************)
(* Bounds of the model.                                                    *)
(***************************************************************************)
\* largest catalog (State.satellites.length) the selector is applied to
MaxN == 8
\* wall-clock milliseconds (Date.now() - load instant) the clock runs for
MaxNow == 2
\* land-data fetches that may be in flight at once
MaxFetch == 2
\* wall-clock milliseconds the debounce timer of handleResize is watched for
MaxResizeClock == 300
\* resize events in one burst (events arriving while the timer is pending)
MaxBurst == 3
\* records of the catalog file
MaxRows == 2
\* degrees of longitude rotation the drag gestures are followed to, either way
MaxLon == 420

(***************************************************************************)
(* Program constants.                                                      *)
(***************************************************************************)
\* State.searchTarget: null
NoTarget == 0
\* animFrameId = null, map2DInterval = null
NoId == 0
\* State.satCount default
DefaultSatCount == 5000
\* State.timeWarp default
DefaultTimeWarp == 100
\* setTimeout(..., 150) of handleResize
ResizeDelay == 150
\* alt = r - 6371 of processData (km)
EarthRadius == 6371
\* let minDist = 12 of frame (px)
HoverRadius == 12

Regimes == {"leo", "meo", "geo"}
Views == {"globe", "altitude", "heatmap", "timeline"}
Charts == Views \ {"globe"}
\* container sizes (clientWidth, clientHeight) a window resize chooses from
ContainerSizes == {1, 2}

VARIABLES
    \* ---- main.js State ----
    satellites,     \* State.satellites: sequence of [name, regime]
    showLEO, showMEO, showGEO,
    satCount,       \* State.satCount (display budget)
    searchTarget,   \* State.searchTarget: a name, or NoTarget
    currentViz,     \* State.currentViz
    projection3D,   \* State.projection3D
    timeWarp,       \* State.timeWarp
    simTime,        \* State.simTime, in ms relative to the load instant
    lastFrameTime,  \* State.lastFrameTime, in ms relative to the load instant
    \* ---- globe.js module state ----
    worldLand,      \* worldLand !== null
    animFrameId,    \* animFrameId
    map2DInterval,  \* map2DInterval
    globeSize,      \* globeCanvas.width/height as set by initGlobe
    mapSize,        \* width/height of the svg built by init2DMap (0: none)
    \* ---- browser / environment ----
    now,            \* Date.now(), in ms relative to the load instant
    rafPending,     \* ids of pending requestAnimationFrame(frame) requests
    intervals,      \* ids of active setInterval timers of start2DMapLoop
    fetchPending,   \* number of d3.json land fetches in flight
    resizeTimer,    \* window._resizeTimer is pending
    winSize,        \* current container size (clientWidth/clientHeight)
    chartRendered,  \* last chart render: <<view, size>> (<<>>: none yet)
    \* ---- observation of getVisibleSubset ----
    subset,         \* last value returned by getVisibleSubset (catalog indices)
    selCalled,      \* getVisibleSubset has returned
    \* ---- the debounce timer of handleResize, where its delay is measured ----
    resizeDue,      \* instant at which the pending timeout may fire
    lastResizeAt,   \* instant of the last 'resize' event
    burstEvents,    \* 'resize' events of the current burst
    reinitsSinceEvent, \* runs of the timeout callback since the last 'resize' event
    \* ---- the catalog load of main.js ----
    csvPending,     \* d3.csv("data/space_debris.csv") has not settled
    csvRows,        \* the records of the catalog file
    loader,         \* the #loader element: "loading", "hidden" or "error"
    \* ---- what a tick of a surface reads and renders ----
    globeMousePos,  \* last pointer position on the globe canvas, <<>> for null
    tooltip,        \* the #tooltip element: <<>> hidden, <<name>> shown for an object
    drawn,          \* markers on the globe canvas (catalog indices, in drawing order)
    hovered,        \* hoveredSat of the last frame: <<>> for null, <<index>>
    status,         \* the counts of the status line: <<displayed, total>>
    mapDots,        \* circles of #map-dots (catalog indices)
    tickSubset,     \* getVisibleSubset() of the last tick
    tickOutcome,    \* what propagation gave for each object in the last tick
    lastStep,       \* the last step: "frame", "planar", "mouseover" (of a map dot) or "other"
    \* ---- the ticks of the two loops, where skipped ticks are observed ----
    lastTick,       \* the last step was a callback of a loop: "frame", "planar"; else "none"
    skippedTicks,   \* a tick was skipped since updateSimTime last ran
    advancedAt,     \* instant at which updateSimTime last ran (startClock: the load instant)
    lastAdvance,    \* last run of updateSimTime: <<instant of the run before, skippedTicks>>
    mapLand,        \* the svg of the planar map holds the land paths
    \* ---- the rotation of the globe and the content of the tooltip ----
    globeDragRotation, \* globeDragRotation: <<lambda, phi>> in degrees
    globeRotate,    \* globeProjection.rotate(): <<>> before the first initGlobe
    lastDrag,       \* the last step was a drag event: <<dx * k, dy * k>>; else <<>>
    tooltipFields   \* the fields the tooltip shows ({}: hidden)

stateVars == <<satellites, showLEO, showMEO, showGEO, satCount, searchTarget>>
viewVars  == <<currentViz, projection3D>>
clockVars == <<timeWarp, simTime, lastFrameTime, now>>
globeVars == <<worldLand, animFrameId, rafPending, fetchPending, globeSize>>
mapVars   == <<map2DInterval, intervals, mapSize>>
sizeVars  == <<resizeTimer, winSize, chartRendered>>
selVars   == <<subset, selCalled>>
resizeObs == <<resizeDue, lastResizeAt, burstEvents, reinitsSinceEvent>>

loadVars  == <<csvPending, csvRows, loader>>

frameOut  == <<globeMousePos, tooltip, drawn, hovered, status, mapDots, tickSubset, tickOutcome>>
frameVars == <<frameOut, lastStep>>

skipObs   == <<skippedTicks, advancedAt, lastAdvance>>
tickObs   == <<lastTick, skipObs, mapLand>>

rotVars   == <<globeDragRotation, globeRotate, lastDrag>>
surfObs   == <<rotVars, tooltipFields>>

\* what only the specification that measures or models it changes
obsVars == <<resizeObs, loadVars, frameVars, tickObs, surfObs>>

vars == <<stateVars, viewVars, clockVars, globeVars, mapVars, sizeVars, selVars, obsVars>>

(***************************************************************************)
(* IEEE-754 binary64 arithmetic, as far as getVisibleSubset uses it.       *)
(* A double d >= 1 (or d = 0) below 128 is the record [hi, lo] with        *)
(*     d = (hi * 2^28 + lo) / 2^52,   0 <= lo < 2^28,                      *)
(* so hi holds the integer part and the top 24 fraction bits.  Every       *)
(* double in [2^e, 2^(e+1)) is a multiple of 2^(e-52): results are         *)
(* rounded to a multiple of 2^e units, ties to even.                       *)
(***************************************************************************)
HiUnit == 2^24
LoUnit == 2^28
HalfLo == 2^14

RECURSIVE Log2Floor(_)
Log2Floor(n) == IF n < 2 THEN 0 ELSE 1 + Log2Floor(n \div 2)

DZero == [hi |-> 0, lo |-> 0]

\* Round hi*2^28 + lo + num/den units (0 <= num < den) to nearest, ties to even.
DRound(hi, lo, num, den) ==
    LET e    == Log2Floor(hi \div HiUnit)
        m    == 2^e
        r    == lo % m
        base == lo - r
        \* sign of (r + num/den) - m/2
        cmp  == IF 2 * (r * den + num) > m * den THEN 1
                ELSE IF 2 * (r * den + num) = m * den THEN 0 ELSE -1
        up   == cmp = 1 \/ (cmp = 0 /\ (lo \div m) % 2 = 1)
        lo2  == IF up THEN base + m ELSE base
    IN  IF lo2 >= LoUnit THEN [hi |-> hi + 1, lo |-> lo2 - LoUnit]
        ELSE [hi |-> hi, lo |-> lo2]

\* a + b
DAdd(a, b) ==
    LET lo == a.lo + b.lo
        hi == a.hi + b.hi + (lo \div LoUnit)
    IN  DRound(hi, lo % LoUnit, 0, 1)

\* f / b for integers f >= b >= 1
DDiv(f, b) ==
    LET hi == (f * HiUnit) \div b
        r1 == (f * HiUnit) % b
        qa == (r1 * HalfLo) \div b
        ra == (r1 * HalfLo) % b
        qb == (ra * HalfLo) \div b
        rb == (ra * HalfLo) % b
    IN  DRound(hi, qa * HalfLo + qb, rb, b)

\* d < n for an integer n
DLess(d, n) == d.hi < n * HiUnit

\* Math.floor(d)
DFloor(d) == d.hi \div HiUnit

(***************************************************************************)
(* The catalog (State.satellites).  An object is identified by its index   *)
(* in the catalog (JavaScript object identity); its name need not be       *)
(* unique.  Catalogs are built from a regime pattern repeated over the     *)
(* catalog; in a catalog with dup > 0 the last object repeats the name of  *)
(* object dup.                                                             *)
(***************************************************************************)
RegimePatterns ==
    { <<"leo">>, <<"leo", "meo", "geo">>, <<"geo", "leo">>, <<"meo", "meo", "leo">> }

MakeCatalog(n, p, dup) ==
    [i \in 1..n |->
        [name   |-> IF i = n /\ dup > 0 THEN dup ELSE i,
         regime |-> p[((i - 1) % Len(p)) + 1]]]

Catalogs ==
    UNION { { MakeCatalog(n, p, dup) : p \in RegimePatterns, dup \in 0..(IF n = 0 THEN 0 ELSE n - 1) }
            : n \in 0..MaxN }

NamesOf(cat) == { cat[i].name : i \in 1..Len(cat) }

\* values the display-budget slider can set (State.satCount)
BudgetValues == 1..(MaxN + 1) \cup {DefaultSatCount}

Range(s) == { s[i] : i \in 1..Len(s) }

(***************************************************************************)
(* getVisibleSubset (globe.js)                                             *)
(***************************************************************************)
\* the filter callback
PassesFilter(sat) ==
    IF sat.regime = "leo" /\ ~showLEO THEN FALSE
    ELSE IF sat.regime = "meo" /\ ~showMEO THEN FALSE
    ELSE IF sat.regime = "geo" /\ ~showGEO THEN FALSE
    ELSE TRUE

\* State.satellites.filter(...): the catalog indices that pass, in order
Filtered ==
    SelectSeq([i \in 1..Len(satellites) |-> i], LAMBDA i : PassesFilter(satellites[i]))

\* State.satellites.find(s => s.name === State.searchTarget), 0 for null/undefined
FindTarget ==
    IF searchTarget = NoTarget THEN 0
    ELSE LET hits == { i \in 1..Len(satellites) : satellites[i].name = searchTarget }
         IN  IF hits = {} THEN 0
             ELSE CHOOSE i \in hits : \A j \in hits : i <= j

\* for (let i = 0; i < filtered.length; i += step) sampled.push(filtered[Math.floor(i)])
RECURSIVE SampleLoop(_, _, _, _)
SampleLoop(filtered, i, step, sampled) ==
    IF DLess(i, Len(filtered))
    THEN SampleLoop(filtered, DAdd(i, step), step, Append(sampled, filtered[DFloor(i) + 1]))
    ELSE sampled

\* if (filtered.length > State.satCount) { step = filtered.length / State.satCount; ... }
Subsample(filtered) ==
    IF Len(filtered) > satCount
    THEN SampleLoop(filtered, DZero, DDiv(Len(filtered), satCount), <<>>)
    ELSE filtered

EnsureTargetNoAppend(filtered, target) == filtered

EnsureTargetAlways(filtered, target) ==
    IF target # 0 THEN Append(filtered, target) ELSE filtered

\* if (target && !filtered.includes(target)) filtered.push(target)
EnsureTarget(filtered, target) ==
    IF target # 0 /\ target \notin Range(filtered)
    THEN Append(filtered, target)
    ELSE filtered

getVisibleSubset == EnsureTarget(Subsample(Filtered), FindTarget)

(***************************************************************************)
(* State after the catalog load handler (main.js 46-58) has run:           *)
(* processData, initGlobe, startClock, listeners attached.                 *)
(***************************************************************************)
InitControls ==
    /\ showLEO = TRUE /\ showMEO = TRUE /\ showGEO = TRUE
    /\ satCount = DefaultSatCount
    /\ searchTarget = NoTarget

InitResizeObs ==
    /\ resizeDue = 0
    /\ lastResizeAt = 0
    /\ burstEvents = 0
    /\ reinitsSinceEvent = 0

\* the catalog has loaded: the .then of d3.csv has run
InitLoaded ==
    /\ csvPending = FALSE
    /\ csvRows = <<>>
    /\ loader = "hidden"

\* nothing is rendered yet, the pointer has not moved over the canvas
InitFrame ==
    /\ globeMousePos = <<>>
    /\ tooltip = <<>>
    /\ drawn = <<>>
    /\ hovered = <<>>
    /\ status = <<>>
    /\ mapDots = <<>>
    /\ tickSubset = <<>>
    /\ tickOutcome = <<>>
    /\ lastStep = "other"

\* no loop has ticked, init2DMap has not run
InitTickObs ==
    /\ lastTick = "none"
    /\ skippedTicks = FALSE
    /\ advancedAt = 0
    /\ lastAdvance = <<>>
    /\ mapLand = FALSE

\* let globeDragRotation = [0, -20]
InitialRotation == <<0, -20>>

\* d3.geoOrthographic()....rotate(globeDragRotation) of initGlobe
AppliedRotation == globeDragRotation

\* initGlobe has run once since the load; no tooltip is shown
InitSurface ==
    /\ globeDragRotation = InitialRotation
    /\ globeRotate = InitialRotation
    /\ lastDrag = <<>>
    /\ tooltipFields = {}

InitObs == InitResizeObs /\ InitLoaded /\ InitFrame /\ InitTickObs /\ InitSurface

InitLifecycle ==
    /\ currentViz = "globe"
    /\ projection3D = TRUE
    /\ timeWarp = DefaultTimeWarp
    /\ now = 0
    /\ simTime = 0
    /\ lastFrameTime = 0
    /\ worldLand = FALSE
    /\ fetchPending = 1
    /\ animFrameId = NoId
    /\ rafPending = {}
    /\ map2DInterval = NoId
    /\ intervals = {}
    /\ resizeTimer = FALSE
    /\ winSize \in ContainerSizes
    /\ globeSize = winSize
    /\ mapSize = 0
    /\ chartRendered = <<>>

(***************************************************************************)
(* Specification of the selector alone: the inputs of getVisibleSubset     *)
(* are drawn from the bounded sets and one call is made.                   *)
(***************************************************************************)
InitSel ==
    /\ satellites \in Catalogs
    /\ showLEO \in BOOLEAN /\ showMEO \in BOOLEAN /\ showGEO \in BOOLEAN
    /\ satCount \in BudgetValues
    /\ searchTarget \in {NoTarget} \cup NamesOf(satellites)
    /\ InitLifecycle
    /\ winSize = 1
    /\ subset = <<>>
    /\ selCalled = FALSE
    /\ InitObs

CallGetVisibleSubset ==
    /\ ~selCalled
    /\ subset' = getVisibleSubset
    /\ selCalled' = TRUE
    /\ UNCHANGED <<stateVars, viewVars, clockVars, globeVars, mapVars, sizeVars, obsVars>>

NextSel == CallGetVisibleSubset

SpecSel == InitSel /\ [][NextSel]_vars

(***************************************************************************)
(* Browser handles.  requestAnimationFrame and setInterval return fresh    *)
(* positive ids; an id matters only while it is pending or held in         *)
(* animFrameId / map2DInterval, so the least id that is neither stands for *)
(* the fresh one.                                                          *)
(***************************************************************************)
NewId(used) ==
    CHOOSE n \in 1..(Cardinality(used) + 1) :
        n \notin used /\ \A m \in 1..(n - 1) : m \in used

\* values the time-warp selector can set (State.timeWarp = parseInt(value))
WarpValues == {-2, DefaultTimeWarp}

(***************************************************************************)
(* updateSimTime (main.js)                                                 *)
(***************************************************************************)
UpdatedSimTimeRetroactive == now * timeWarp

UpdatedSimTimeReset == (now - lastFrameTime) * timeWarp

UpdatedSimTimeOneTick == simTime + (IF now > lastFrameTime THEN timeWarp ELSE 0)

\* State.simTime.getTime() + delta * State.timeWarp, delta = now - lastFrameTime
UpdatedSimTime == simTime + (now - lastFrameTime) * timeWarp

updateSimTime ==
    /\ lastFrameTime' = now
    /\ simTime' = UpdatedSimTime
    /\ UNCHANGED <<timeWarp, now>>

(***************************************************************************)
(* startGlobeAnimation (globe.js): cancel the request held in animFrameId, *)
(* request a frame.                                                        *)
(***************************************************************************)
RafAfterStartNoCancel == rafPending \cup {NewId(rafPending \cup {animFrameId})}

\* if (animFrameId) cancelAnimationFrame(animFrameId); requestAnimationFrame(frame)
RafAfterStart == (rafPending \ {animFrameId}) \cup {NewId(rafPending \ {animFrameId})}

startGlobeAnimation ==
    /\ rafPending' = RafAfterStart
    /\ animFrameId' = CHOOSE n \in RafAfterStart : n \notin (rafPending \ {animFrameId})

(***************************************************************************)
(* initGlobe (globe.js)                                                    *)
(***************************************************************************)
initGlobe ==
    /\ globeSize' = winSize
    /\ IF ~worldLand
       THEN /\ fetchPending < MaxFetch
            /\ fetchPending' = fetchPending + 1
            /\ UNCHANGED <<worldLand, animFrameId, rafPending>>
       ELSE IF animFrameId = NoId
       THEN /\ startGlobeAnimation
            /\ UNCHANGED <<worldLand, fetchPending>>
       ELSE UNCHANGED <<worldLand, fetchPending, animFrameId, rafPending>>

(***************************************************************************)
(* start2DMapLoop, update2DMap, init2DMap (globe.js)                       *)
(***************************************************************************)
\* update2DMap: updateSimTime(), then the markers are rebuilt from getVisibleSubset()
update2DMap == updateSimTime

\* if (map2DInterval) clearInterval(map2DInterval); map2DInterval = setInterval(...)
IntervalsAfterStart == (intervals \ {map2DInterval}) \cup {NewId(intervals \ {map2DInterval})}

start2DMapLoop ==
    /\ intervals' = IntervalsAfterStart
    /\ map2DInterval' = CHOOSE n \in IntervalsAfterStart : n \notin (intervals \ {map2DInterval})
    /\ update2DMap

init2DMap ==
    /\ mapSize' = winSize
    /\ start2DMapLoop

(***************************************************************************)
(* toggleProjection (globe.js), called by the projection buttons           *)
(***************************************************************************)
ToggleKeepsIntervals == intervals

\* if (map2DInterval) { clearInterval(map2DInterval); map2DInterval = null; }
ToggleClearedIntervals == intervals \ {map2DInterval}

toggleProjection ==
    IF projection3D'
    THEN /\ intervals' = ToggleClearedIntervals
         /\ map2DInterval' = NoId
         /\ initGlobe
         /\ UNCHANGED <<mapSize, clockVars>>
    ELSE /\ init2DMap
         /\ UNCHANGED globeVars

\* click on a .proj-btn (main.js 180-187)
ClickProjection(to3D) ==
    /\ projection3D' = to3D
    /\ toggleProjection
    /\ UNCHANGED <<stateVars, currentViz, sizeVars, selVars>>

(***************************************************************************)
(* switchViz (main.js), called by the tab buttons                          *)
(***************************************************************************)
\* renderAltitude / renderHeatmap / renderTimeline: rebuild the chart at the container size
renderChart(id) == chartRendered' = <<id, winSize>>

switchViz(id) ==
    /\ currentViz' = id
    /\ IF id = "globe"
       THEN initGlobe /\ UNCHANGED chartRendered
       ELSE renderChart(id) /\ UNCHANGED globeVars
    /\ UNCHANGED <<stateVars, projection3D, clockVars, mapVars, resizeTimer, winSize, selVars>>

(***************************************************************************)
(* handleResize (main.js)                                                  *)
(***************************************************************************)
\* a window 'resize' event: clearTimeout(_resizeTimer); _resizeTimer = setTimeout(..., 150)
handleResize(size) ==
    /\ winSize' = size
    /\ resizeTimer' = TRUE
    /\ UNCHANGED <<stateVars, viewVars, clockVars, globeVars, mapVars, chartRendered, selVars>>

\* the debounce timer fires
ResizeTimerFires ==
    /\ resizeTimer
    /\ resizeTimer' = FALSE
    /\ IF currentViz = "globe"
       THEN initGlobe /\ UNCHANGED chartRendered
       ELSE renderChart(currentViz) /\ UNCHANGED globeVars
    /\ UNCHANGED <<stateVars, viewVars, clockVars, mapVars, winSize, selVars>>

(***************************************************************************)
(* The land-data fetch issued by initGlobe                                 *)
(***************************************************************************)
\* .then(world => { worldLand = ...; startGlobeAnimation(); })
LandFetchResolves ==
    /\ fetchPending > 0
    /\ fetchPending' = fetchPending - 1
    /\ worldLand' = TRUE
    /\ startGlobeAnimation
    /\ UNCHANGED <<globeSize, stateVars, viewVars, clockVars, mapVars, sizeVars, selVars>>

\* the promise rejects: no handler is attached
LandFetchFails ==
    /\ fetchPending > 0
    /\ fetchPending' = fetchPending - 1
    /\ UNCHANGED <<worldLand, animFrameId, rafPending, globeSize>>
    /\ UNCHANGED <<stateVars, viewVars, clockVars, mapVars, sizeVars, selVars>>

(***************************************************************************)
(* The two loops                                                           *)
(***************************************************************************)
CatalogAfterPassReclassified ==
    [i \in 1..Len(satellites) |-> [satellites[i] EXCEPT !.regime = "leo"]]

\* subset.forEach(sat => ...) of frame and of update2DMap read sat.rec, sat.name,
\* sat.alt and sat.regime; positions.push({...}) and hoveredSat = { ...sat, lat,
\* lon, xy } build new objects; filtered.push(target) of getVisibleSubset appends
\* to the array that filter() or the sampling loop has built
CatalogAfterPass == satellites

RafAfterFrameNoRearm(id) == rafPending \ {id}

\* animFrameId = requestAnimationFrame(frame), first statement of frame()
RafAfterFrame(id) == (rafPending \ {id}) \cup {NewId(rafPending \ {id})}

\* frame() of startGlobeAnimation: a pending animation-frame request is served
frame(id) ==
    /\ id \in rafPending
    /\ rafPending' = RafAfterFrame(id)
    /\ animFrameId' = NewId(rafPending \ {id})
    /\ IF currentViz # "globe" \/ ~projection3D
       THEN UNCHANGED clockVars
       ELSE updateSimTime
    /\ UNCHANGED <<worldLand, fetchPending, globeSize>>
    /\ satellites' = CatalogAfterPass
    /\ UNCHANGED <<showLEO, showMEO, showGEO, satCount, searchTarget>>
    /\ UNCHANGED <<viewVars, mapVars, sizeVars, selVars>>

SelfCancelKeeps == intervals

\* clearInterval(map2DInterval) in the callback
SelfCancelled == intervals \ {map2DInterval}

\* the setInterval callback of start2DMapLoop
intervalTick(id) ==
    /\ id \in intervals
    /\ IF currentViz # "globe" \/ projection3D
       THEN /\ intervals' = SelfCancelled
            /\ map2DInterval' = NoId
            /\ UNCHANGED clockVars
       ELSE /\ update2DMap
            /\ UNCHANGED <<intervals, map2DInterval>>
    /\ satellites' = CatalogAfterPass
    /\ UNCHANGED <<showLEO, showMEO, showGEO, satCount, searchTarget>>
    /\ UNCHANGED <<mapSize, viewVars, globeVars, sizeVars, selVars>>

(***************************************************************************)
(* Controls (attachControlListeners) and the wall clock                    *)
(***************************************************************************)
\* time-warp 'change'
SetTimeWarp(w) ==
    /\ timeWarp' = w
    /\ UNCHANGED <<simTime, lastFrameTime, now>>
    /\ UNCHANGED <<stateVars, viewVars, globeVars, mapVars, sizeVars, selVars>>

\* filter-leo / filter-meo / filter-geo 'change'
SetFilter(regime, checked) ==
    /\ showLEO' = IF regime = "leo" THEN checked ELSE showLEO
    /\ showMEO' = IF regime = "meo" THEN checked ELSE showMEO
    /\ showGEO' = IF regime = "geo" THEN checked ELSE showGEO
    /\ UNCHANGED <<satellites, satCount, searchTarget>>
    /\ UNCHANGED <<viewVars, clockVars, globeVars, mapVars, sizeVars, selVars>>

\* sat-count-slider 'input'
SetSatCount(n) ==
    /\ satCount' = n
    /\ UNCHANGED <<satellites, showLEO, showMEO, showGEO, searchTarget>>
    /\ UNCHANGED <<viewVars, clockVars, globeVars, mapVars, sizeVars, selVars>>

\* click on a search result
SetSearchTarget(name) ==
    /\ searchTarget' = name
    /\ UNCHANGED <<satellites, showLEO, showMEO, showGEO, satCount>>
    /\ UNCHANGED <<viewVars, clockVars, globeVars, mapVars, sizeVars, selVars>>

\* real time passes (Date.now() grows)
TimePasses ==
    /\ now < MaxNow
    /\ now' = now + 1
    /\ UNCHANGED <<timeWarp, simTime, lastFrameTime>>
    /\ UNCHANGED <<stateVars, viewVars, globeVars, mapVars, sizeVars, selVars>>

(***************************************************************************)
(* Specification of the running dashboard                                  *)
(***************************************************************************)
Init ==
    /\ satellites = MakeCatalog(3, <<"leo", "meo", "geo">>, 0)
    /\ InitControls
    /\ InitLifecycle
    /\ subset = <<>>
    /\ selCalled = FALSE
    /\ InitObs

\* the debounce delay is not measured here (the timeout callback may run whenever
\* the timer is pending) and nothing is observed
Next ==
    \/ \E to3D \in BOOLEAN : ClickProjection(to3D) /\ UNCHANGED obsVars
    \/ \E id \in Views : switchViz(id) /\ UNCHANGED obsVars
    \/ \E size \in ContainerSizes : handleResize(size) /\ UNCHANGED obsVars
    \/ ResizeTimerFires /\ UNCHANGED obsVars
    \/ LandFetchResolves /\ UNCHANGED obsVars
    \/ LandFetchFails /\ UNCHANGED obsVars
    \/ \E id \in rafPending : frame(id) /\ UNCHANGED obsVars
    \/ \E id \in intervals : intervalTick(id) /\ UNCHANGED obsVars
    \/ \E w \in WarpValues : SetTimeWarp(w) /\ UNCHANGED obsVars
    \/ TimePasses /\ UNCHANGED obsVars

Spec == Init /\ [][Next]_vars

(***************************************************************************)
(* Specification of the clock under every control: the lifecycle of Spec   *)
(* with the filter, budget and search controls, the window being resized   *)
(* without a change of the container size.                                 *)
(***************************************************************************)
NextClock ==
    \/ \E to3D \in BOOLEAN : ClickProjection(to3D) /\ UNCHANGED obsVars
    \/ \E id \in Views : switchViz(id) /\ UNCHANGED obsVars
    \/ handleResize(winSize) /\ UNCHANGED obsVars
    \/ ResizeTimerFires /\ UNCHANGED obsVars
    \/ LandFetchResolves /\ UNCHANGED obsVars
    \/ LandFetchFails /\ UNCHANGED obsVars
    \/ \E id \in rafPending : frame(id) /\ UNCHANGED obsVars
    \/ \E id \in intervals : intervalTick(id) /\ UNCHANGED obsVars
    \/ \E w \in WarpValues : SetTimeWarp(w) /\ UNCHANGED obsVars
    \/ \E r \in Regimes, checked \in BOOLEAN : SetFilter(r, checked) /\ UNCHANGED obsVars
    \/ \E n \in {1, DefaultSatCount} : SetSatCount(n) /\ UNCHANGED obsVars
    \/ \E name \in NamesOf(satellites) : SetSearchTarget(name) /\ UNCHANGED obsVars
    \/ TimePasses /\ UNCHANGED obsVars

InitClock == Init /\ winSize = 1

SpecClock == InitClock /\ [][NextClock]_vars

(***************************************************************************)
(* Specification of the resize debounce: the lifecycle with the delay of   *)
(* the timeout of handleResize measured on the wall clock.  A timeout set  *)
(* at instant t may run at any instant >= t + ResizeDelay (timers may run  *)
(* late, never early).                                                     *)
(***************************************************************************)
DueAfterResizeNoRestart == IF resizeTimer THEN resizeDue ELSE now + ResizeDelay

\* clearTimeout(window._resizeTimer); window._resizeTimer = setTimeout(..., 150)
DueAfterResize == now + ResizeDelay

\* a window 'resize' event
ResizeEvent(size) ==
    /\ resizeTimer => burstEvents < MaxBurst
    /\ handleResize(size)
    /\ resizeDue' = DueAfterResize
    /\ lastResizeAt' = now
    /\ burstEvents' = IF resizeTimer THEN burstEvents + 1 ELSE 1
    /\ reinitsSinceEvent' = 0
    /\ UNCHANGED <<loadVars, frameVars, tickObs, surfObs>>

\* the timeout callback runs, its delay having elapsed
ResizeTimerDue ==
    /\ now >= resizeDue
    /\ ResizeTimerFires
    /\ reinitsSinceEvent' = reinitsSinceEvent + 1
    /\ UNCHANGED <<resizeDue, lastResizeAt, burstEvents>>
    /\ UNCHANGED <<loadVars, frameVars, tickObs, surfObs>>

\* d milliseconds of real time pass
WaitFor(d) ==
    /\ now + d <= MaxResizeClock
    /\ now' = now + d
    /\ UNCHANGED <<timeWarp, simTime, lastFrameTime>>
    /\ UNCHANGED <<stateVars, viewVars, globeVars, mapVars, sizeVars, selVars, obsVars>>

NextResize ==
    \/ \E size \in ContainerSizes : ResizeEvent(size)
    \/ ResizeTimerDue
    \/ \E d \in {ResizeDelay - 1, ResizeDelay} : WaitFor(d)
    \/ \E id \in Views : switchViz(id) /\ UNCHANGED obsVars
    \/ LandFetchResolves /\ UNCHANGED obsVars
    \/ LandFetchFails /\ UNCHANGED obsVars

SpecResize == Init /\ [][NextResize]_vars

(***************************************************************************)
(* The catalog load (main.js): d3.csv(...).then(...).catch(...),           *)
(* processData and getRegime.  Altitudes and radial distances are in       *)
(* metres, so that 1999.999 km and 2000.0 km are the integers 1999999 and  *)
(* 2000000.  A record of the file is what processData reads of it: whether *)
(* TLE_LINE1 and TLE_LINE2 are present, whether twoline2satrec returns or  *)
(* throws, and whether propagate returns a position (at radial distance    *)
(* r), returns no position, or throws.                                     *)
(***************************************************************************)
getRegimeInclusive(alt) ==
    IF alt <= 2000 * 1000 THEN "leo"
    ELSE IF alt <= 35786 * 1000 THEN "meo"
    ELSE "geo"

getRegime(alt) ==
    IF alt < 2000 * 1000 THEN "leo"
    ELSE IF alt < 35786 * 1000 THEN "meo"
    ELSE "geo"

BoundaryAltitudes == {400 * 1000, 1999999, 2000 * 1000, 35785999, 35786 * 1000}

Radii == { EarthRadius * 1000 + alt : alt \in BoundaryAltitudes }

RowKinds ==
    { [l1 |-> FALSE, l2 |-> TRUE,  parse |-> "ok",     prop |-> "none",   r |-> 0],
      [l1 |-> TRUE,  l2 |-> FALSE, parse |-> "ok",     prop |-> "none",   r |-> 0],
      [l1 |-> TRUE,  l2 |-> TRUE,  parse |-> "throws", prop |-> "none",   r |-> 0],
      [l1 |-> TRUE,  l2 |-> TRUE,  parse |-> "ok",     prop |-> "throws", r |-> 0],
      [l1 |-> TRUE,  l2 |-> TRUE,  parse |-> "ok",     prop |-> "none",   r |-> 0] }
    \cup { [l1 |-> TRUE, l2 |-> TRUE, parse |-> "ok", prop |-> "position", r |-> r] : r \in Radii }

CsvFiles == UNION { [1..n -> RowKinds] : n \in 0..MaxRows }

AltitudeOfRadiusOnly(row) == row.r - EarthRadius * 1000

\* let alt = 0; if (posVel.position) alt = r - 6371
AltitudeOf(row) == IF row.prop = "position" THEN row.r - EarthRadius * 1000 ELSE 0

RECURSIVE ProcessRowsAbort(_, _, _)
ProcessRowsAbort(rows, i, acc) ==
    IF i > Len(rows) THEN acc
    ELSE IF ~rows[i].l1 \/ ~rows[i].l2 THEN ProcessRowsAbort(rows, i + 1, acc)
    ELSE IF rows[i].parse = "throws" \/ rows[i].prop = "throws" THEN acc
    ELSE ProcessRowsAbort(rows, i + 1,
             Append(acc, [name   |-> i,
                          alt    |-> AltitudeOf(rows[i]),
                          regime |-> getRegime(AltitudeOf(rows[i]))]))

\* data.forEach(row => ...): an object is pushed for row i, named by OBJECT_NAME
\* (here the row's place in the file), unless a line is missing or the try block
\* throws
RECURSIVE ProcessRows(_, _, _)
ProcessRows(rows, i, acc) ==
    IF i > Len(rows) THEN acc
    ELSE IF ~rows[i].l1 \/ ~rows[i].l2 THEN ProcessRows(rows, i + 1, acc)
    ELSE IF rows[i].parse = "throws" \/ rows[i].prop = "throws"
         THEN ProcessRows(rows, i + 1, acc)
    ELSE ProcessRows(rows, i + 1,
             Append(acc, [name   |-> i,
                          alt    |-> AltitudeOf(rows[i]),
                          regime |-> getRegime(AltitudeOf(rows[i]))]))

processData == ProcessRows(csvRows, 1, satellites)

\* .then(data => { processData(data); loader hidden; initGlobe(); startClock();
\*                 listeners attached })
CsvResolves ==
    /\ csvPending
    /\ csvPending' = FALSE
    /\ satellites' = processData
    /\ loader' = "hidden"
    /\ initGlobe
    /\ UNCHANGED <<showLEO, showMEO, showGEO, satCount, searchTarget, csvRows>>
    /\ globeRotate' = AppliedRotation
    /\ UNCHANGED <<globeDragRotation, lastDrag, tooltipFields>>
    /\ UNCHANGED <<viewVars, clockVars, mapVars, sizeVars, selVars, resizeObs, frameVars, tickObs>>

\* .catch(err => { loader.innerHTML = error message })
CsvFails ==
    /\ csvPending
    /\ csvPending' = FALSE
    /\ loader' = "error"
    /\ UNCHANGED csvRows
    /\ UNCHANGED <<stateVars, viewVars, clockVars, globeVars, mapVars, sizeVars, selVars, resizeObs, frameVars, tickObs, surfObs>>

\* the page before the catalog request settles: nothing is initialized
InitLoad ==
    /\ satellites = <<>>
    /\ InitControls
    /\ currentViz = "globe"
    /\ projection3D = TRUE
    /\ timeWarp = DefaultTimeWarp
    /\ now = 0
    /\ simTime = 0
    /\ lastFrameTime = 0
    /\ worldLand = FALSE
    /\ fetchPending = 0
    /\ animFrameId = NoId
    /\ rafPending = {}
    /\ map2DInterval = NoId
    /\ intervals = {}
    /\ resizeTimer = FALSE
    /\ winSize \in ContainerSizes
    /\ globeSize = 0
    /\ mapSize = 0
    /\ chartRendered = <<>>
    /\ subset = <<>>
    /\ selCalled = FALSE
    /\ InitResizeObs
    /\ InitFrame
    /\ InitTickObs
    /\ globeDragRotation = InitialRotation
    /\ globeRotate = <<>>
    /\ lastDrag = <<>>
    /\ tooltipFields = {}
    /\ csvPending = TRUE
    /\ csvRows \in CsvFiles
    /\ loader = "loading"

NextLoad ==
    \/ CsvResolves
    \/ CsvFails
    \/ LandFetchResolves /\ UNCHANGED obsVars
    \/ LandFetchFails /\ UNCHANGED obsVars

SpecLoad == InitLoad /\ [][NextLoad]_vars

(***************************************************************************)
(* Specification of a session from the load on: the catalog request        *)
(* settles, and then the two loops tick under view switches, projection    *)
(* clicks and a regime filter while real time passes.  The handlers are    *)
(* attached, and the clock is started, in the .then of d3.csv, so nothing  *)
(* but the settling of the request happens before it.  The file has two    *)
(* records, each with a missing line, or with an element set that parses   *)
(* and a propagation that gives no position, or one at MEO altitude.       *)
(***************************************************************************)
\* a record that parses and whose propagation at the load returns no position
NoPositionRow == [l1 |-> TRUE, l2 |-> TRUE, parse |-> "ok", prop |-> "none", r |-> 0]

SessionRowKinds ==
    { NoPositionRow,
      [l1 |-> FALSE, l2 |-> TRUE, parse |-> "ok", prop |-> "none", r |-> 0],
      [l1 |-> TRUE, l2 |-> TRUE, parse |-> "ok", prop |-> "position",
       r |-> (EarthRadius + 2000) * 1000] }

SessionFiles == [1..2 -> SessionRowKinds]

\* the .then of d3.csv has run: listeners attached, clock started
Loaded == ~csvPending /\ loader = "hidden"

InitSession == InitLoad /\ csvRows \in SessionFiles /\ winSize = 1

NextSession ==
    \/ CsvResolves
    \/ CsvFails
    \/ LandFetchResolves /\ UNCHANGED obsVars
    \/ \E id \in rafPending : frame(id) /\ UNCHANGED obsVars
    \/ \E id \in intervals : intervalTick(id) /\ UNCHANGED obsVars
    \/ \E to3D \in BOOLEAN : Loaded /\ ClickProjection(to3D) /\ UNCHANGED obsVars
    \/ \E id \in {"globe", "altitude"} : Loaded /\ switchViz(id) /\ UNCHANGED obsVars
    \/ \E checked \in BOOLEAN : Loaded /\ SetFilter("leo", checked) /\ UNCHANGED obsVars
    \/ Loaded /\ TimePasses /\ UNCHANGED obsVars

SpecSession == InitSession /\ [][NextSession]_vars

(***************************************************************************)
(* The per-tick pass over the visible set (globe.js): the satellite loop   *)
(* of frame, the hover detection and tooltip, the status line, and the     *)
(* loop of update2DMap.  What satellite.propagate and the projection give  *)
(* for an object in a tick is an input of the tick: propagate throws,      *)
(* returns no position, or returns a position whose sub-point lies deg     *)
(* degrees (great circle) from the view centre and projects to the pixel   *)
(* xy, or to no pixel (<<>>).  Distances on the canvas are compared        *)
(* squared: Math.sqrt is monotone, so dist < minDist is the comparison of  *)
(* the squares.                                                            *)
(***************************************************************************)
Pointers == { <<0, 0>> }

Outcomes ==
    { [kind |-> "throws", deg |-> 0,  xy |-> <<>>],
      [kind |-> "none",   deg |-> 0,  xy |-> <<>>],
      [kind |-> "point",  deg |-> 91, xy |-> <<3, 4>>],
      [kind |-> "point",  deg |-> 90, xy |-> <<8, 8>>],
      [kind |-> "point",  deg |-> 89, xy |-> <<3, 4>>],
      [kind |-> "point",  deg |-> 89, xy |-> <<12, 0>>],
      [kind |-> "point",  deg |-> 89, xy |-> <<>>] }

\* one outcome for each object of the visible set
TickOutcomes == [Range(getVisibleSubset) -> Outcomes]

\* dx * dx + dy * dy
Dist2(p, q) == (p[1] - q[1]) * (p[1] - q[1]) + (p[2] - q[2]) * (p[2] - q[2])

\* let hoveredSat = null; let minDist = 12
PassStart == [drawn |-> <<>>, hovered |-> <<>>, minDist2 |-> HoverRadius * HoverRadius]

MarkedKeepMin(i, xy, acc) ==
    IF globeMousePos # <<>> /\ Dist2(globeMousePos, xy) < acc.minDist2
    THEN [acc EXCEPT !.drawn = Append(acc.drawn, i), !.hovered = <<i>>]
    ELSE [acc EXCEPT !.drawn = Append(acc.drawn, i)]

\* the marker of object i is drawn, then the hover detection
Marked(i, xy, acc) ==
    IF globeMousePos # <<>> /\ Dist2(globeMousePos, xy) < acc.minDist2
    THEN [drawn |-> Append(acc.drawn, i), hovered |-> <<i>>,
          minDist2 |-> Dist2(globeMousePos, xy)]
    ELSE [acc EXCEPT !.drawn = Append(acc.drawn, i)]

RECURSIVE DrawPassAbort(_, _, _, _)
DrawPassAbort(sub, k, out, acc) ==
    IF k > Len(sub) THEN acc
    ELSE LET o == out[sub[k]]
         IN  IF o.kind = "throws" THEN acc
             ELSE IF o.kind = "none" THEN DrawPassAbort(sub, k + 1, out, acc)
             ELSE IF o.deg > 90 THEN DrawPassAbort(sub, k + 1, out, acc)
             ELSE IF o.xy = <<>> THEN DrawPassAbort(sub, k + 1, out, acc)
             ELSE DrawPassAbort(sub, k + 1, out, Marked(sub[k], o.xy, acc))

RECURSIVE DrawPassNoCull(_, _, _, _)
DrawPassNoCull(sub, k, out, acc) ==
    IF k > Len(sub) THEN acc
    ELSE LET o == out[sub[k]]
         IN  IF o.kind = "throws" THEN DrawPassNoCull(sub, k + 1, out, acc)
             ELSE IF o.kind = "none" THEN DrawPassNoCull(sub, k + 1, out, acc)
             ELSE IF o.xy = <<>> THEN DrawPassNoCull(sub, k + 1, out, acc)
             ELSE DrawPassNoCull(sub, k + 1, out, Marked(sub[k], o.xy, acc))

\* subset.forEach(sat => { try { ... } catch (e) { /* skip */ } }) of frame
RECURSIVE DrawPass(_, _, _, _)
DrawPass(sub, k, out, acc) ==
    IF k > Len(sub) THEN acc
    ELSE LET o == out[sub[k]]
         IN  IF o.kind = "throws" THEN DrawPass(sub, k + 1, out, acc)
             ELSE IF o.kind = "none" THEN DrawPass(sub, k + 1, out, acc)
             ELSE IF o.deg > 90 THEN DrawPass(sub, k + 1, out, acc)
             ELSE IF o.xy = <<>> THEN DrawPass(sub, k + 1, out, acc)
             ELSE DrawPass(sub, k + 1, out, Marked(sub[k], o.xy, acc))

\* subset.forEach(sat => { try { ... if (xy) positions.push(...) } catch (e) {} })
\* of update2DMap
RECURSIVE MapPass(_, _, _, _)
MapPass(sub, k, out, acc) ==
    IF k > Len(sub) THEN acc
    ELSE LET o == out[sub[k]]
         IN  IF o.kind = "throws" THEN MapPass(sub, k + 1, out, acc)
             ELSE IF o.kind = "none" THEN MapPass(sub, k + 1, out, acc)
             ELSE IF o.xy = <<>> THEN MapPass(sub, k + 1, out, acc)
             ELSE MapPass(sub, k + 1, out, Append(acc, sub[k]))

\* the body of frame after updateSimTime: markers, highlight and tooltip, status line
Render3D(out) ==
    LET pass == DrawPass(getVisibleSubset, 1, out, PassStart)
    IN  /\ tickSubset' = getVisibleSubset
        /\ tickOutcome' = out
        /\ drawn' = pass.drawn
        /\ hovered' = pass.hovered
        /\ tooltip' = IF pass.hovered # <<>> THEN <<satellites[pass.hovered[1]].name>>
                      ELSE IF globeMousePos # <<>> THEN <<>>
                      ELSE tooltip
        /\ status' = <<Len(getVisibleSubset), Len(satellites)>>
        /\ lastStep' = "frame"
        /\ UNCHANGED <<globeMousePos, mapDots>>

\* the body of update2DMap after updateSimTime: the data join of #map-dots
Render2D(out) ==
    /\ tickSubset' = getVisibleSubset
    /\ tickOutcome' = out
    /\ mapDots' = MapPass(getVisibleSubset, 1, out, <<>>)
    /\ lastStep' = "planar"
    /\ UNCHANGED <<globeMousePos, tooltip, drawn, hovered, status>>

\* a step that renders nothing and propagates no object
NoRender ==
    /\ lastStep' = "other"
    /\ tickSubset' = <<>>
    /\ tickOutcome' = <<>>
    /\ UNCHANGED <<globeMousePos, tooltip, drawn, hovered, status, mapDots>>

FrameTick(id) ==
    /\ frame(id)
    /\ IF currentViz # "globe" \/ ~projection3D
       THEN NoRender
       ELSE \E out \in TickOutcomes : Render3D(out)
    /\ UNCHANGED <<resizeObs, loadVars>>

PlanarTick(id) ==
    /\ intervalTick(id)
    /\ IF currentViz # "globe" \/ projection3D
       THEN NoRender
       ELSE \E out \in TickOutcomes : Render2D(out)
    /\ UNCHANGED <<resizeObs, loadVars>>

\* click on a .proj-btn: init2DMap renders at once (start2DMapLoop calls update2DMap)
ProjectionClick(to3D) ==
    /\ ClickProjection(to3D)
    /\ IF to3D
       THEN NoRender
       ELSE \E out \in TickOutcomes : Render2D(out)
    /\ UNCHANGED <<resizeObs, loadVars>>

\* 'mousemove' on the globe canvas
MouseMove(pos) ==
    /\ currentViz = "globe" /\ projection3D
    /\ globeMousePos' = pos
    /\ lastStep' = "other"
    /\ tickSubset' = <<>>
    /\ tickOutcome' = <<>>
    /\ UNCHANGED <<tooltip, drawn, hovered, status, mapDots>>
    /\ UNCHANGED <<stateVars, viewVars, clockVars, globeVars, mapVars, sizeVars, selVars>>
    /\ UNCHANGED <<resizeObs, loadVars>>

\* 'mouseleave' on the globe canvas: globeMousePos = null; hideTooltip()
MouseLeave ==
    /\ currentViz = "globe" /\ projection3D
    /\ globeMousePos' = <<>>
    /\ tooltip' = <<>>
    /\ lastStep' = "other"
    /\ tickSubset' = <<>>
    /\ tickOutcome' = <<>>
    /\ UNCHANGED <<drawn, hovered, status, mapDots>>
    /\ UNCHANGED <<stateVars, viewVars, clockVars, globeVars, mapVars, sizeVars, selVars>>
    /\ UNCHANGED <<resizeObs, loadVars>>

NextFrame ==
    \/ \E id \in rafPending : FrameTick(id) /\ UNCHANGED <<tickObs, surfObs>>
    \/ \E id \in intervals : PlanarTick(id) /\ UNCHANGED <<tickObs, surfObs>>
    \/ \E to3D \in BOOLEAN : ProjectionClick(to3D) /\ UNCHANGED <<tickObs, surfObs>>
    \/ \E pos \in Pointers : MouseMove(pos) /\ UNCHANGED <<tickObs, surfObs>>
    \/ MouseLeave /\ UNCHANGED <<tickObs, surfObs>>
    \/ LandFetchResolves /\ NoRender /\ UNCHANGED <<resizeObs, loadVars, tickObs, surfObs>>

\* the dashboard after the load, the display budget set to two of the three objects
InitFrameSpec ==
    /\ satellites = MakeCatalog(3, <<"leo", "meo", "geo">>, 0)
    /\ showLEO = TRUE /\ showMEO = TRUE /\ showGEO = TRUE
    /\ satCount = 2
    /\ searchTarget = NoTarget
    /\ InitLifecycle
    /\ winSize = 1
    /\ subset = <<>>
    /\ selCalled = FALSE
    /\ InitObs

SpecFrame == InitFrameSpec /\ [][NextFrame]_vars

(***************************************************************************)
(* The pinned-target highlight.  Both render loops decide per marker, from *)
(* the name alone, whether it is drawn as the target (larger dot, white    *)
(* ring, and the label on the globe).  The specification below runs the    *)
(* render loops on a catalog of two objects that carry the same name.      *)
(***************************************************************************)
\* const isTarget = sat.name === State.searchTarget
isTarget(i) == satellites[i].name = searchTarget

\* the markers of a frame that are drawn as the target
TargetMarkers(markers) == { k \in 1..Len(markers) : isTarget(markers[k]) }

\* the dashboard after the load of a file whose two rows have the same OBJECT_NAME
InitPinned ==
    /\ satellites = MakeCatalog(2, <<"leo", "meo">>, 1)
    /\ showLEO = TRUE /\ showMEO = TRUE /\ showGEO = TRUE
    /\ satCount = 2
    /\ searchTarget \in {NoTarget} \cup NamesOf(satellites)
    /\ InitLifecycle
    /\ winSize = 1
    /\ subset = <<>>
    /\ selCalled = FALSE
    /\ InitObs

SpecPinned == InitPinned /\ [][NextFrame]_vars

(***************************************************************************)
(* Specification of the skipped ticks: the two loops with what they        *)
(* render, under view switches and projection clicks while real time       *)
(* passes, every callback of a loop being observed, skipped or not.        *)
(***************************************************************************)
\* a step that is no callback of a loop
NoTick ==
    /\ lastTick' = "none"
    /\ UNCHANGED <<skipObs, mapLand>>
    /\ UNCHANGED <<resizeObs, loadVars, surfObs>>

NextSkip ==
    \/ \E id \in rafPending : FrameTick(id) /\ lastTick' = "frame" /\ UNCHANGED <<skipObs, mapLand, surfObs>>
    \/ \E id \in intervals : PlanarTick(id) /\ lastTick' = "planar" /\ UNCHANGED <<skipObs, mapLand, surfObs>>
    \/ \E to3D \in BOOLEAN : ProjectionClick(to3D) /\ lastTick' = "none" /\ UNCHANGED <<skipObs, mapLand, surfObs>>
    \/ \E id \in Views : switchViz(id) /\ NoRender /\ NoTick
    \/ \E pos \in Pointers : MouseMove(pos) /\ lastTick' = "none" /\ UNCHANGED <<skipObs, mapLand, surfObs>>
    \/ MouseLeave /\ lastTick' = "none" /\ UNCHANGED <<skipObs, mapLand, surfObs>>
    \/ LandFetchResolves /\ NoRender /\ NoTick
    \/ TimePasses /\ NoRender /\ NoTick

\* the dashboard after the load, the display budget set to one object
InitSkip ==
    /\ satellites = MakeCatalog(3, <<"leo", "meo", "geo">>, 0)
    /\ showLEO = TRUE /\ showMEO = TRUE /\ showGEO = TRUE
    /\ satCount = 1
    /\ searchTarget = NoTarget
    /\ InitLifecycle
    /\ winSize = 1
    /\ subset = <<>>
    /\ selCalled = FALSE
    /\ InitObs

SpecSkip == InitSkip /\ [][NextSkip]_vars

(***************************************************************************)
(* Specification of the clock across skipped ticks: the two loops under    *)
(* view switches, projection clicks and the time-warp control while real   *)
(* time passes, with the runs of updateSimTime and the skipped callbacks   *)
(* observed, and with the land layer of the planar map.  Markers are not   *)
(* rendered here.                                                          *)
(***************************************************************************)
\* updateSimTime has run
AdvanceObserved ==
    /\ lastAdvance' = <<advancedAt, skippedTicks>>
    /\ advancedAt' = now
    /\ skippedTicks' = FALSE

\* a callback returned before updateSimTime
SkipObserved ==
    /\ skippedTicks' = TRUE
    /\ UNCHANGED <<advancedAt, lastAdvance>>

ObservedFrame(id) ==
    /\ frame(id)
    /\ lastTick' = "frame"
    /\ IF currentViz # "globe" \/ ~projection3D THEN SkipObserved ELSE AdvanceObserved
    /\ UNCHANGED <<mapLand, resizeObs, loadVars, frameVars, surfObs>>

ObservedInterval(id) ==
    /\ intervalTick(id)
    /\ lastTick' = "planar"
    /\ IF currentViz # "globe" \/ projection3D THEN SkipObserved ELSE AdvanceObserved
    /\ UNCHANGED <<mapLand, resizeObs, loadVars, frameVars, surfObs>>

\* init2DMap: if (worldLand) the land paths are appended to the new svg
LandDrawnByInit == worldLand

\* click on a .proj-btn; init2DMap rebuilds the svg and start2DMapLoop calls
\* update2DMap at once
ObservedProjection(to3D) ==
    /\ ClickProjection(to3D)
    /\ lastTick' = "none"
    /\ IF to3D
       THEN UNCHANGED <<skipObs, mapLand>>
       ELSE AdvanceObserved /\ mapLand' = LandDrawnByInit
    /\ UNCHANGED <<resizeObs, loadVars, frameVars, surfObs>>

NextTick ==
    \/ \E id \in rafPending : ObservedFrame(id)
    \/ \E id \in intervals : ObservedInterval(id)
    \/ \E to3D \in BOOLEAN : ObservedProjection(to3D)
    \/ \E id \in Views : switchViz(id) /\ NoTick /\ UNCHANGED frameVars
    \/ LandFetchResolves /\ NoTick /\ UNCHANGED frameVars
    \/ \E w \in WarpValues : SetTimeWarp(w) /\ NoTick /\ UNCHANGED frameVars
    \/ TimePasses /\ NoTick /\ UNCHANGED frameVars

InitTick == Init /\ winSize = 1

SpecTick == InitTick /\ [][NextTick]_vars

(***************************************************************************)
(* The rotation of the globe (globe.js).  Angles are whole degrees.  A     *)
(* drag event carries the pointer movement (dx, dy) in pixels; the handler *)
(* scales it by k = 75 / globeProjection.scale(), and the scale is         *)
(* min(width, height) / 2.3 of the last initGlobe, so k is inversely       *)
(* proportional to the canvas size: the unit of the pixel movements is     *)
(* chosen so that k is 2 degrees at container size 1 and 1 degree at       *)
(* size 2.  The canvas receives pointer events only while it is displayed: *)
(* in the tracker view, in Perspective mode (toggleProjection hides it in  *)
(* Planar mode).                                                           *)
(***************************************************************************)
\* pointer movements of one drag event
DragPixels == {-60, 0, 60}

\* const k = 75 / globeProjection.scale()
DragGain == 2 \div globeSize

DraggedRotationNoClamp(dx, dy) ==
    <<globeDragRotation[1] + dx * DragGain, globeDragRotation[2] - dy * DragGain>>

\* Math.max(-90, Math.min(90, phi))
ClampLatitude(phi) == IF phi > 90 THEN 90 ELSE IF phi < -90 THEN -90 ELSE phi

\* globeDragRotation[0] += event.dx * k; globeDragRotation[1] -= event.dy * k;
\* globeDragRotation[1] = Math.max(-90, Math.min(90, globeDragRotation[1]))
DraggedRotation(dx, dy) ==
    <<globeDragRotation[1] + dx * DragGain,
      ClampLatitude(globeDragRotation[2] - dy * DragGain)>>

\* the 'drag' handler installed by initGlobe
Drag(dx, dy) ==
    /\ currentViz = "globe" /\ projection3D
    /\ DraggedRotation(dx, dy)[1] \in -MaxLon..MaxLon
    /\ globeDragRotation' = DraggedRotation(dx, dy)
    /\ globeRotate' = DraggedRotation(dx, dy)
    /\ lastDrag' = <<dx * DragGain, dy * DragGain>>
    /\ UNCHANGED tooltipFields
    /\ UNCHANGED <<stateVars, viewVars, clockVars, globeVars, mapVars, sizeVars, selVars>>
    /\ UNCHANGED <<resizeObs, loadVars, frameVars, tickObs>>

\* a step that is no drag event; initGlobe, where it runs, builds the projection
\* anew with .rotate(globeDragRotation)
NoDrag(reinit) ==
    /\ globeRotate' = IF reinit THEN AppliedRotation ELSE globeRotate
    /\ lastDrag' = <<>>
    /\ UNCHANGED <<globeDragRotation, tooltipFields>>
    /\ UNCHANGED <<resizeObs, loadVars, frameVars, tickObs>>

NextRotate ==
    \/ \E dx \in DragPixels, dy \in DragPixels : Drag(dx, dy)
    \/ \E id \in Views : switchViz(id) /\ NoDrag(id = "globe")
    \/ \E size \in ContainerSizes : handleResize(size) /\ NoDrag(FALSE)
    \/ ResizeTimerFires /\ NoDrag(currentViz = "globe")
    \/ \E to3D \in BOOLEAN : ClickProjection(to3D) /\ NoDrag(to3D)

\* the dashboard after the load, the land data having arrived: the globe loop runs
InitRotate ==
    /\ satellites = MakeCatalog(3, <<"leo", "meo", "geo">>, 0)
    /\ InitControls
    /\ currentViz = "globe"
    /\ projection3D = TRUE
    /\ timeWarp = DefaultTimeWarp
    /\ now = 0
    /\ simTime = 0
    /\ lastFrameTime = 0
    /\ worldLand = TRUE
    /\ fetchPending = 0
    /\ animFrameId = 1
    /\ rafPending = {1}
    /\ map2DInterval = NoId
    /\ intervals = {}
    /\ resizeTimer = FALSE
    /\ winSize \in ContainerSizes
    /\ globeSize = winSize
    /\ mapSize = 0
    /\ chartRendered = <<>>
    /\ subset = <<>>
    /\ selCalled = FALSE
    /\ InitObs

SpecRotate == InitRotate /\ [][NextRotate]_vars

(***************************************************************************)
(* The content of the tooltip (globe.js).  The html that showTooltip is    *)
(* given is the list of the fields it prints.  On the globe the tooltip is *)
(* shown by frame for hoveredSat; on the planar map by the 'mouseover'     *)
(* handler that update2DMap attaches to every circle of #map-dots.         *)
(***************************************************************************)
\* the template literal of frame: name, Alt, Lat, Lon, Regime, Type, Country
TooltipFields3D == {"name", "alt", "lat", "lon", "regime", "type", "country"}

\* the template literal of update2DMap: name, Alt, Lat, Lon, Regime
TooltipFields2D == {"name", "alt", "lat", "lon", "regime"}

\* what the tooltip shows after a step of frame, of update2DMap or of a pointer
\* handler of the canvas: showTooltip in frame, hideTooltip, or nothing
FieldsAfterStep ==
    tooltipFields' = IF lastStep' = "frame" /\ hovered' # <<>> THEN TooltipFields3D
                     ELSE IF tooltip' = <<>> THEN {}
                     ELSE tooltipFields

\* 'mouseover' on the k-th circle of #map-dots
MapMouseOver(k) ==
    /\ currentViz = "globe" /\ ~projection3D
    /\ k \in 1..Len(mapDots)
    /\ tooltip' = <<satellites[mapDots[k]].name>>
    /\ tooltipFields' = TooltipFields2D
    /\ lastStep' = "mouseover"
    /\ tickSubset' = <<>>
    /\ tickOutcome' = <<>>
    /\ UNCHANGED <<globeMousePos, drawn, hovered, status, mapDots>>
    /\ UNCHANGED <<stateVars, viewVars, clockVars, globeVars, mapVars, sizeVars, selVars>>
    /\ UNCHANGED <<resizeObs, loadVars, tickObs, rotVars>>

\* 'mouseout' on a circle of #map-dots: hideTooltip()
MapMouseOut ==
    /\ currentViz = "globe" /\ ~projection3D
    /\ mapDots # <<>>
    /\ tooltip' = <<>>
    /\ tooltipFields' = {}
    /\ lastStep' = "other"
    /\ tickSubset' = <<>>
    /\ tickOutcome' = <<>>
    /\ UNCHANGED <<globeMousePos, drawn, hovered, status, mapDots>>
    /\ UNCHANGED <<stateVars, viewVars, clockVars, globeVars, mapVars, sizeVars, selVars>>
    /\ UNCHANGED <<resizeObs, loadVars, tickObs, rotVars>>

NextTooltip ==
    \/ \E id \in rafPending : FrameTick(id) /\ FieldsAfterStep /\ UNCHANGED <<tickObs, rotVars>>
    \/ \E id \in intervals : PlanarTick(id) /\ FieldsAfterStep /\ UNCHANGED <<tickObs, rotVars>>
    \/ \E to3D \in BOOLEAN : ProjectionClick(to3D) /\ FieldsAfterStep /\ UNCHANGED <<tickObs, rotVars>>
    \/ \E pos \in Pointers : MouseMove(pos) /\ FieldsAfterStep /\ UNCHANGED <<tickObs, rotVars>>
    \/ MouseLeave /\ FieldsAfterStep /\ UNCHANGED <<tickObs, rotVars>>
    \/ \E k \in 1..Len(mapDots) : MapMouseOver(k)
    \/ MapMouseOut
    \/ LandFetchResolves /\ NoRender /\ UNCHANGED <<resizeObs, loadVars, tickObs, surfObs>>

SpecTooltip == InitSkip /\ [][NextTooltip]_vars

(***************************************************************************)
(* Specification of the catalog under every operation that follows the     *)
(* load: the ticks of both surfaces with their rendering, the pointer over *)
(* the globe, the controls, the view and projection switches and the       *)
(* resize.  Real time stands still.                                        *)
(***************************************************************************)
\* a control has changed; nothing is rendered by the handler
ControlChanged ==
    /\ NoRender
    /\ UNCHANGED <<resizeObs, loadVars, tickObs, surfObs>>

NextCatalog ==
    \/ \E id \in rafPending : FrameTick(id) /\ UNCHANGED <<tickObs, surfObs>>
    \/ \E id \in intervals : PlanarTick(id) /\ UNCHANGED <<tickObs, surfObs>>
    \/ \E to3D \in BOOLEAN : ProjectionClick(to3D) /\ UNCHANGED <<tickObs, surfObs>>
    \/ \E pos \in Pointers : MouseMove(pos) /\ UNCHANGED <<tickObs, surfObs>>
    \/ \E id \in {"globe", "altitude"} : switchViz(id) /\ ControlChanged
    \/ handleResize(winSize) /\ ControlChanged
    \/ ResizeTimerFires /\ ControlChanged
    \/ \E checked \in BOOLEAN : SetFilter("leo", checked) /\ ControlChanged
    \/ \E n \in {1, DefaultSatCount} : SetSatCount(n) /\ ControlChanged
    \/ \E name \in NamesOf(satellites) : SetSearchTarget(name) /\ ControlChanged
    \/ \E w \in WarpValues : SetTimeWarp(w) /\ ControlChanged

\* the dashboard after the load of two objects, the land data having arrived, the
\* GEO filter switched off and the display budget set to one
InitCatalog ==
    /\ satellites = MakeCatalog(2, <<"geo", "leo">>, 0)
    /\ showLEO = TRUE /\ showMEO = TRUE /\ showGEO = FALSE
    /\ satCount = 1
    /\ searchTarget = NoTarget
    /\ currentViz = "globe"
    /\ projection3D = TRUE
    /\ timeWarp = DefaultTimeWarp
    /\ now = 0
    /\ simTime = 0
    /\ lastFrameTime = 0
    /\ worldLand = TRUE
    /\ fetchPending = 0
    /\ animFrameId = 1
    /\ rafPending = {1}
    /\ map2DInterval = NoId
    /\ intervals = {}
    /\ resizeTimer = FALSE
    /\ winSize = 1
    /\ globeSize = 1
    /\ mapSize = 0
    /\ chartRendered = <<>>
    /\ subset = <<>>
    /\ selCalled = FALSE
    /\ InitObs

SpecCatalog == InitCatalog /\ [][NextCatalog]_vars

(***************************************************************************)
(* Claims about getVisibleSubset                                           *)
(***************************************************************************)
\* the sample the specification describes: filtered indices floor(k*F/B), k*F/B < F
ExactSample(filtered, budget) ==
    [k \in 1..budget |-> filtered[(((k - 1) * Len(filtered)) \div budget) + 1]]

ExactSelect ==
    LET f == Filtered
        s == IF Len(f) > satCount THEN ExactSample(f, satCount) ELSE f
        t == FindTarget
    IN  IF t # 0 /\ t \notin Range(s) THEN Append(s, t) ELSE s

\* C1: getVisibleSubset returns exactly the filtered objects in catalog order,
\* sampled at the filtered indices floor(k*F/B) (k*F/B < F) when F > B, followed
\* by the pinned target when it is set, found and not already in the result.
C1_ExactSequence == selCalled => subset = ExactSelect

\* the pinned target was appended behind the sample
PinnedAppended ==
    /\ FindTarget # 0
    /\ Len(subset) > 0
    /\ subset[Len(subset)] = FindTarget
    /\ FindTarget \notin Range(SubSeq(subset, 1, Len(subset) - 1))
    /\ FindTarget \notin Range(Subsample(Filtered))

\* C2: with budget B < N the result has at most B + 1 elements, and B + 1 only
\* when a pinned target outside the sample was appended.
C2_BudgetBound ==
    (selCalled /\ satCount < Len(satellites)) =>
        /\ Len(subset) <= satCount + 1
        /\ Len(subset) = satCount + 1 => PinnedAppended

\* C3 as claimed: with budget B >= N the result is exactly the filtered set,
\* for every pinned-target value.
C3_ExactlyFiltered ==
    (selCalled /\ satCount >= Len(satellites)) => subset = Filtered

\* C3 amended: with budget B >= N the result is the filtered set in catalog order,
\* followed by the pinned target when the target's regime is switched off.
C3_FilteredPlusPinned ==
    (selCalled /\ satCount >= Len(satellites)) =>
        subset = IF FindTarget # 0 /\ ~PassesFilter(satellites[FindTarget])
                 THEN Append(Filtered, FindTarget)
                 ELSE Filtered

C3_Witness ==
    /\ selCalled
    /\ satCount >= Len(satellites)
    /\ Len(satellites) >= 3
    /\ Len(Filtered) >= 1
    /\ FindTarget # 0
    /\ ~PassesFilter(satellites[FindTarget])
    /\ Len(subset) = Len(Filtered) + 1

\* C4: whenever the pinned target names an object of the catalog, the result of
\* getVisibleSubset contains that object, whatever the budget and the filters.
C4_PinnedIncluded ==
    (selCalled /\ searchTarget # NoTarget /\ searchTarget \in NamesOf(satellites)) =>
        /\ FindTarget \in Range(subset)
        /\ satellites[FindTarget].name = searchTarget

\* the target's regime is off while the remaining objects are subsampled
C4_Witness ==
    /\ selCalled
    /\ searchTarget # NoTarget
    /\ ~PassesFilter(satellites[FindTarget])
    /\ Len(Filtered) > satCount
    /\ FindTarget \in Range(subset)

(***************************************************************************)
(* Claims about the simulated clock                                        *)
(***************************************************************************)
\* C5: every advance changes simTime by exactly the real elapsed time dt times
\* the timeWarp in force at that advance (lastFrameTime moves to now by dt); a
\* step that is no advance, a change of timeWarp included, leaves simTime alone.
C5_AdvanceByWarp ==
    [][ /\ lastFrameTime' \in {lastFrameTime, now}
        /\ simTime' = simTime + (lastFrameTime' - lastFrameTime) * timeWarp ]_vars

\* one millisecond advanced at the default warp and one at warp -2
C5_Witness ==
    /\ lastFrameTime = 2
    /\ timeWarp = -2
    /\ simTime = DefaultTimeWarp - 2

C7_OneLoopPerSurface ==
    /\ Cardinality(rafPending) <= 1
    /\ Cardinality(intervals) <= 1

\* initGlobe ran again before the first land fetch resolved: the globe loop runs
\* while a further fetch is still in flight; the planar loop runs too
C7_Witness ==
    /\ worldLand
    /\ fetchPending > 0
    /\ Cardinality(rafPending) = 1
    /\ Cardinality(intervals) = 1

\* C8 as claimed: a switch from Perspective to Planar leaves no globe frame
\* request pending, a switch from Planar to Perspective no planar timer active.
C8_ToggleTearsDown ==
    [][ /\ (projection3D /\ ~projection3D') => rafPending' = {}
        /\ (~projection3D /\ projection3D') => intervals' = {} ]_vars

\* C8 amended: a switch from Planar to Perspective cancels the planar timer and
\* initializes the globe; a switch from Perspective to Planar initializes the
\* planar surface and starts its timer, and leaves the globe frame requests as
\* they were (a pending request stays pending).
C8_ToggleAmended ==
    [][ /\ (~projection3D /\ projection3D') =>
              (intervals' = {} /\ map2DInterval' = NoId /\ globeSize' = winSize)
        /\ (projection3D /\ ~projection3D') =>
              (rafPending' = rafPending /\ animFrameId' = animFrameId
               /\ Cardinality(intervals') = 1 /\ mapSize' = winSize) ]_vars

\* Planar mode entered while the globe loop was running: its request is pending
C8_Witness ==
    /\ ~projection3D
    /\ rafPending # {}
    /\ intervals # {}
    /\ mapSize = winSize

\* C9: after switchViz back to the Live Tracker the loop of the current
\* projection mode runs: the planar interval in Planar mode, the globe frame
\* request (once the globe loop was started) in Perspective mode.
C9_TrackerLoopResumes ==
    [][ (currentViz # "globe" /\ currentViz' = "globe") =>
            IF projection3D'
            THEN animFrameId' # NoId => rafPending' # {}
            ELSE intervals' # {} ]_vars

\* C10: when the debounce timer fires, the active view or surface is rebuilt at
\* the current container size: the globe canvas in Perspective mode, the planar
\* svg in Planar mode, the chart of the active chart view.
C10_ResizeReinitsActive ==
    [][ (resizeTimer /\ ~resizeTimer') =>
            IF currentViz = "globe"
            THEN IF projection3D THEN globeSize' = winSize ELSE mapSize' = winSize
            ELSE chartRendered' = <<currentViz, winSize>> ]_vars

\* C11: the timeout callback (the reinitialization) never runs less than
\* ResizeDelay ms after the last resize event, so never between two events of a
\* burst, and it runs once per burst; a resize event itself reinitializes nothing
\* and leaves the timer pending.
C11_Debounce ==
    [][ /\ (resizeTimer /\ ~resizeTimer') =>
              (now >= lastResizeAt + ResizeDelay /\ reinitsSinceEvent' = 1)
        /\ (lastResizeAt' # lastResizeAt \/ burstEvents' # burstEvents) =>
              (resizeTimer' /\ reinitsSinceEvent' = 0
               /\ UNCHANGED <<globeSize, mapSize, chartRendered, fetchPending>>) ]_vars

\* a burst of three events, the last one ResizeDelay - 1 ms after the one before,
\* was followed by one reinitialization at the new size
C11_Witness ==
    /\ ~resizeTimer
    /\ burstEvents = 3
    /\ lastResizeAt >= ResizeDelay - 1
    /\ reinitsSinceEvent = 1
    /\ globeSize = winSize

\* C14: while the land data has not arrived, the initialized Perspective surface,
\* when it is the active one, has its frame loop running (a frame request pending).
C14_LoopRunsWithoutLand ==
    (currentViz = "globe" /\ projection3D /\ globeSize # 0 /\ ~worldLand)
        => rafPending # {}

\* C15: at most one fetch of the land data is ever issued, so at most one is in
\* flight.
C15_FetchedOnce == fetchPending <= 1

\* C13: when the catalog request or the land-data request fails, the loading
\* indicator is replaced with an error message.
C13_LoadFailureSurfaced ==
    [][ /\ (csvPending /\ ~csvPending' /\ globeSize' = 0) => loader' = "error"
        /\ (fetchPending' < fetchPending /\ ~worldLand') => loader' = "error" ]_vars

\* C16: every ingested object is LEO below 2000 km, MEO from 2000 km up to but
\* excluding 35786 km, GEO from 35786 km upward; 1999.999 km is LEO, 2000.0 km
\* is MEO, 35785.999 km is MEO and 35786.0 km is GEO.
C16_RegimeBoundaries ==
    \A k \in 1..Len(satellites) :
        LET alt == satellites[k].alt
            regime == satellites[k].regime
        IN  /\ (alt < 2000000) <=> (regime = "leo")
            /\ (2000000 <= alt /\ alt < 35786000) <=> (regime = "meo")
            /\ (alt >= 35786000) <=> (regime = "geo")
            /\ alt = 1999999 => regime = "leo"
            /\ alt = 2000000 => regime = "meo"
            /\ alt = 35785999 => regime = "meo"
            /\ alt = 35786000 => regime = "geo"

\* the loaded catalog holds an object at 2000.0 km and one at 35786.0 km
C16_Witness ==
    /\ loader = "hidden"
    /\ \E k \in 1..Len(satellites) : satellites[k].alt = 2000000
    /\ \E k \in 1..Len(satellites) : satellites[k].alt = 35786000

Present(row) == row.l1 /\ row.l2

Parses(row) == Present(row) /\ row.parse = "ok"

IngestedAre(kept) ==
    /\ Len(satellites) = Cardinality(kept)
    /\ \A k \in 1..Len(satellites) : satellites[k].name \in kept
    /\ \A k, l \in 1..Len(satellites) : k < l => satellites[k].name < satellites[l].name

\* C20: the loaded catalog holds exactly one object per record whose element set is
\* present and parses, in source order; every other record is dropped.
C20_OnePerParsedRecord ==
    loader = "hidden" => IngestedAre({ i \in 1..Len(csvRows) : Parses(csvRows[i]) })

\* C20 (amended): the loaded catalog holds exactly one object per record whose
\* element set is present and parses and whose first propagation does not throw, in
\* source order; every other record is dropped and the records after it are still
\* ingested.
C20_OnePerIngestibleRecord ==
    loader = "hidden" =>
        IngestedAre({ i \in 1..Len(csvRows) : Parses(csvRows[i]) /\ csvRows[i].prop # "throws" })

\* a record that fails to parse was dropped and the valid record after it ingested
C20_Witness ==
    /\ loader = "hidden"
    /\ Len(csvRows) = 2
    /\ Present(csvRows[1]) /\ csvRows[1].parse = "throws"
    /\ Parses(csvRows[2]) /\ csvRows[2].prop = "position"
    /\ Len(satellites) = 1
    /\ satellites[1].name = 2

Resolved3D(o) == o.kind = "point" /\ o.deg <= 90 /\ o.xy # <<>>

Resolved2D(o) == o.kind = "point" /\ o.xy # <<>>

\* C12: in a tick of either surface the markers rendered are exactly those of the
\* objects of the visible set that resolved in that tick, whatever the other
\* objects did (an exception, no position), and the tick ran to its end (the status
\* line of the frame was drawn); which objects failed in earlier ticks plays no part.
C12_FailureIsolated ==
    /\ lastStep = "frame" =>
          /\ \A i \in Range(tickSubset) : (i \in Range(drawn)) <=> Resolved3D(tickOutcome[i])
          /\ status # <<>>
    /\ lastStep = "planar" =>
          \A i \in Range(tickSubset) : (i \in Range(mapDots)) <=> Resolved2D(tickOutcome[i])

\* a frame in which propagation threw for the first object of the visible set and
\* the second was drawn
C12_Witness ==
    /\ lastStep = "frame"
    /\ Len(tickSubset) = 2
    /\ tickOutcome[tickSubset[1]].kind = "throws"
    /\ drawn = <<tickSubset[2]>>
    /\ status # <<>>

\* C17: in a frame, a resolved point more than 90 degrees from the view centre is
\* neither drawn nor hovered; a point at less than 90 degrees is drawn and, when
\* the pointer is within the hover radius of it, a marker is hovered.
C17_HemisphereCulling ==
    lastStep = "frame" =>
        \A i \in Range(tickSubset) :
            LET o == tickOutcome[i]
            IN  /\ (o.kind = "point" /\ o.deg > 90) =>
                      (i \notin Range(drawn) /\ hovered # <<i>>)
                /\ (o.kind = "point" /\ o.deg < 90 /\ o.xy # <<>>) =>
                      /\ i \in Range(drawn)
                      /\ (globeMousePos # <<>>
                          /\ Dist2(globeMousePos, o.xy) < HoverRadius * HoverRadius)
                            => hovered # <<>>

\* a frame with the pointer 5 px from a back-facing point, which is not drawn and
\* not hovered, and with a front-facing point drawn
C17_Witness ==
    /\ lastStep = "frame"
    /\ globeMousePos = <<0, 0>>
    /\ \E i \in Range(tickSubset) :
          /\ tickOutcome[i].kind = "point" /\ tickOutcome[i].deg = 91
          /\ i \notin Range(drawn)
    /\ \E i \in Range(tickSubset) : tickOutcome[i].deg = 89 /\ i \in Range(drawn)
    /\ hovered = <<>>

NearPointer == { i \in Range(drawn) :
                   Dist2(globeMousePos, tickOutcome[i].xy) < HoverRadius * HoverRadius }

\* C18: after a frame, with a pointer position known the hovered marker is a drawn
\* marker nearest to the pointer among the drawn markers and less than 12 px from
\* it, and the tooltip shows that object; with no drawn marker within 12 px the
\* tooltip is hidden; with no pointer position known no marker is hovered.
C18_HoverNearest ==
    lastStep = "frame" =>
        IF globeMousePos = <<>> THEN hovered = <<>>
        ELSE IF NearPointer = {} THEN hovered = <<>> /\ tooltip = <<>>
        ELSE /\ hovered # <<>>
             /\ hovered[1] \in NearPointer
             /\ \A j \in NearPointer :
                   Dist2(globeMousePos, tickOutcome[hovered[1]].xy)
                       <= Dist2(globeMousePos, tickOutcome[j].xy)
             /\ tooltip = <<satellites[hovered[1]].name>>

\* a frame with two markers within 12 px of the pointer, the nearer one drawn
\* first: the nearer one is hovered and the tooltip shows it
C18_Witness ==
    /\ lastStep = "frame"
    /\ globeMousePos = <<0, 0>>
    /\ Len(drawn) = 2
    /\ tickOutcome[drawn[1]].xy = <<3, 4>>
    /\ tickOutcome[drawn[2]].xy = <<8, 8>>
    /\ hovered = <<drawn[1]>>
    /\ tooltip = <<satellites[drawn[1]].name>>

\* C19: the status line of a frame shows the number of markers rendered in that
\* frame and the catalog size.
C19_StatusCountsRendered ==
    lastStep = "frame" => status = <<Len(drawn), Len(satellites)>>

\* C21: a callback of the planar timer that finds the tracker view inactive or the
\* mode Perspective clears the timer (no planar timer remains, so it ticks no
\* more) and changes neither the clock nor the markers.
C21_PlanarSelfCancels ==
    [][ (lastTick' = "planar" /\ (currentViz # "globe" \/ projection3D)) =>
            /\ intervals' = {}
            /\ map2DInterval' = NoId
            /\ UNCHANGED <<simTime, lastFrameTime, mapDots>> ]_vars

\* the timer has just cancelled itself in a chart view, real time having passed
\* since the clock last advanced and a marker being on the map
C21_Witness ==
    /\ lastTick = "planar"
    /\ currentViz # "globe"
    /\ intervals = {}
    /\ now > lastFrameTime
    /\ mapDots # <<>>

\* C22: every globe frame callback re-arms the next frame; one that finds the
\* tracker view inactive or the mode Planar changes neither the clock nor the
\* canvas, the hovered marker or the tooltip; one that finds the tracker active in
\* Perspective mode renders, the globe not having been initialized again.
C22_SkippedFrameRearms ==
    [][ lastTick' = "frame" =>
            /\ animFrameId' \in rafPending'
            /\ globeSize' = globeSize
            /\ IF currentViz # "globe" \/ ~projection3D
               THEN UNCHANGED <<simTime, lastFrameTime, drawn, hovered, tooltip, status>>
               ELSE lastStep' = "frame" /\ lastFrameTime' = now ]_vars

\* a frame callback was skipped in a chart view, real time having passed since the
\* clock last advanced and a marker being hovered on the canvas; the next frame is
\* requested
C22_Witness ==
    /\ lastTick = "frame"
    /\ currentViz # "globe"
    /\ now > lastFrameTime
    /\ hovered # <<>>
    /\ tooltip # <<>>
    /\ animFrameId \in rafPending

\* C23: a skipped callback of either loop leaves simTime and lastFrameTime
\* unchanged; a callback that is not skipped advances simTime by the wall-clock
\* time since updateSimTime last ran, skipped callbacks included, multiplied by the
\* timeWarp of that moment.
C23_SkippedIntervalCounts ==
    [][ /\ (lastTick' # "none" /\ skippedTicks') => UNCHANGED <<simTime, lastFrameTime>>
        /\ (lastTick' # "none" /\ ~skippedTicks') =>
              /\ simTime' = simTime + (now - advancedAt) * timeWarp
              /\ lastFrameTime' = now ]_vars

\* a frame advanced the clock over an interval of at least 2 ms during which a
\* callback had been skipped
C23_Witness ==
    /\ lastTick = "frame"
    /\ lastAdvance # <<>>
    /\ lastAdvance[2]
    /\ advancedAt - lastAdvance[1] >= 2
    /\ lastFrameTime = now

\* C26: a tick of the Planar surface that runs with the land data present shows
\* the land.
C26_PlanarLandOnceAvailable ==
    (lastTick = "planar" /\ currentViz = "globe" /\ ~projection3D /\ worldLand) => mapLand


\* the last-parsed object that carries the pinned name (0 when none does)
C24_LastParsedNamed ==
    LET hits == { i \in 1..Len(satellites) : satellites[i].name = searchTarget }
    IN  IF hits = {} THEN 0
        ELSE CHOOSE i \in hits : \A j \in hits : j <= i

\* C24: name collisions are kept in the catalog, and when several objects share
\* the pinned name the target lookup of getVisibleSubset resolves to the
\* last-parsed object of that name.
C24_LastParsedWins ==
    (selCalled /\ searchTarget # NoTarget /\ searchTarget \in NamesOf(satellites)) =>
        /\ FindTarget = C24_LastParsedNamed
        /\ C24_LastParsedNamed \in Range(subset)


\* C29: every step that advances simTime is taken while the active view is the
\* Live Tracker, by the surface of the current projection mode: the globe frame
\* in Perspective mode, the planar update in Planar mode; no step advances the
\* clock while a chart view is active.
C29_AdvanceOnlyInTracker ==
    [][simTime' # simTime =>
          /\ currentViz = "globe"
          /\ currentViz' = "globe"]_vars


\* C25: in every frame of either surface at most one marker is rendered as the
\* pinned target, even when several objects of the visible set share the name.
C25_AtMostOneTargetMarker ==
    /\ lastStep = "frame"  => Cardinality(TargetMarkers(drawn)) <= 1
    /\ lastStep = "planar" => Cardinality(TargetMarkers(mapDots)) <= 1


\* C28: the latitude of the rotation state is in [-90, 90] in every reachable
\* state: a drag step applies its delta and then clamps the latitude, while the
\* longitude takes its delta unclamped; every other step, the re-initializations
\* of the globe included, leaves the rotation state as it is, and a
\* re-initialization gives the projection the current rotation state.
C28_LatitudeClamped ==
    /\ [](globeDragRotation[2] \in -90..90)
    /\ [][IF lastDrag' # <<>>
          THEN /\ globeDragRotation'[1] = globeDragRotation[1] + lastDrag'[1]
               /\ globeDragRotation'[2] =
                      ClampLatitude(globeDragRotation[2] - lastDrag'[2])
          ELSE /\ globeDragRotation' = globeDragRotation
               /\ globeSize' # globeSize => globeRotate' = globeDragRotation]_vars

\* a drag has pushed the latitude past the pole and the longitude past a full
\* turn, and the globe has then been re-initialized at another size
C28_Witness ==
    /\ globeDragRotation[2] = 90
    /\ globeDragRotation[1] > 360
    /\ lastDrag = <<>>
    /\ globeSize = 2
    /\ globeRotate = globeDragRotation


\* C30: the tooltip that the Planar surface shows for a hovered marker has the
\* content of the Perspective surface's tooltip: name, altitude, latitude,
\* longitude, regime, type and country.
C30_SameTooltipContent ==
    lastStep = "mouseover" => tooltipFields = TooltipFields3D


\* C27: after ingestion no step changes the catalog: the ticks of either surface
\* (with getVisibleSubset and the hover handling), the control changes, the view
\* and projection switches and the resize leave the list and every field of
\* every object, the regime included, as ingestion left them.
C27_CatalogImmutable == [][satellites' = satellites]_vars

\* a frame has hovered an object of the sampled set over which the pinned
\* target was appended, with a regime filtered out, and the catalog is the
\* ingested one
C27_Witness ==
    /\ lastStep = "frame"
    /\ hovered # <<>>
    /\ searchTarget # NoTarget
    /\ Len(tickSubset) = 2
    /\ satCount = DefaultSatCount
    /\ satellites = MakeCatalog(2, <<"geo", "leo">>, 0)


\* the records of the file that parse and whose propagation gave no position
C31_NoPositionRows == { i \in 1..Len(csvRows) : csvRows[i] = NoPositionRow }

\* C31: a record whose element set parses but whose propagation at the load
\* gives no position is in the catalog, once, with altitude 0 and regime LEO,
\* in every state of the session after the load.
C31_NoPositionIsLeo ==
    Loaded =>
        \A i \in C31_NoPositionRows :
            /\ Cardinality({ k \in 1..Len(satellites) : satellites[k].name = i }) = 1
            /\ \A k \in 1..Len(satellites) :
                   satellites[k].name = i =>
                       satellites[k].alt = 0 /\ satellites[k].regime = "leo"

\* such a record was loaded after a record at MEO altitude, and the session has
\* gone on: the clock has advanced and the planar map is shown with LEO filtered
C31_Witness ==
    /\ Loaded
    /\ C31_NoPositionRows = {2}
    /\ Len(satellites) = 2
    /\ satellites[1].regime = "meo"
    /\ simTime > 0
    /\ currentViz = "globe" /\ ~projection3D
    /\ ~showLEO

====
